---- MODULE Spec2Model ----
(***************************************************************************)
(* Model of the AST traversal dispatcher of src/src/Visitor.h.             *)
(*                                                                         *)
(* A caller performs two successive walks of one tree: the first with the  *)
(* base Visitor, the second with a visitor w that is either the base       *)
(* Visitor again or a subclass overriding the handler of one kind.         *)
(* Handler activations are frames of an explicit call stack; every call    *)
(* of operator() and every handler entry and return is logged in trace.    *)
(***************************************************************************)
EXTENDS Integers, Sequences, FiniteSets, TLC

VARIABLES tree, w, caller, stack, trace, result, exc

vars == <<tree, w, caller, stack, trace, result, exc>>

(***************************************************************************)
(* Bounds.                                                                 *)
(***************************************************************************)
MaxNodes == 5

(***************************************************************************)
(* Kinds.  ASTNodeType is the closed set of the switch in operator().      *)
(***************************************************************************)
LeafKinds == {"Integer", "Var", "Call"}

BinaryKinds == {"Add", "Sub", "Mul", "Div", "LT", "LE", "GT", "GE", "EQ", "NE"}

ASTNodeType ==
  {"Program", "Function", "StmtSeq", "Integer", "Var", "Assign", "Invoke",
   "IfThenElse", "While", "Call"} \cup BinaryKinds

UnknownTag == "Unknown"

(***************************************************************************)
(* Shared handles: a std::shared_ptr is a sequence of length 0 (nullptr)   *)
(* or 1 (the node pointed to).                                             *)
(***************************************************************************)
nullptr == <<>>

(***************************************************************************)
(* Trees.  Nodes are records carrying the tag and the child handles the    *)
(* handlers read.  XOfSize(n, B) is the set of X with exactly n nodes      *)
(* whose expression nodes take their kind from the palette B.              *)
(***************************************************************************)
RECURSIVE ExprOfSize(_, _)
ExprOfSize(n, B) ==
  IF n = 1 THEN {[kind |-> k] : k \in B \cap LeafKinds}
  ELSE IF n < 3 THEN {}
  ELSE UNION {{[kind |-> k, lhs_ |-> <<l>>, rhs_ |-> <<r>>] :
                 k \in B \cap BinaryKinds, l \in ExprOfSize(i, B), r \in ExprOfSize(n - 1 - i, B)} :
              i \in 1..(n - 2)}

RECURSIVE StmtOfSize(_, _)
RECURSIVE StmtListOfSize(_, _)
StmtListOfSize(m, B) ==
  IF m = 0 THEN {<<>>}
  ELSE UNION {{<< <<s>> >> \o rest :
                 s \in StmtOfSize(i, B), rest \in StmtListOfSize(m - i, B)} :
              i \in 1..m}

StmtOfSize(n, B) ==
  {[kind |-> "StmtSeq", stmts_ |-> l] : l \in StmtListOfSize(n - 1, B)}
  \cup (IF n < 3 THEN {}
        ELSE {[kind |-> "Assign", var_ |-> <<[kind |-> "Var"]>>, expr_ |-> <<e>>] :
                e \in ExprOfSize(n - 2, B)})
  \cup (IF n < 2 THEN {}
        ELSE {[kind |-> "Invoke", expr_ |-> <<e>>] : e \in ExprOfSize(n - 1, B)})
  \cup UNION {{[kind |-> "While", cond_ |-> <<c>>, body_ |-> <<b>>] :
                 c \in ExprOfSize(i, B), b \in StmtOfSize(n - 1 - i, B)} :
              i \in 1..(n - 2)}
  \cup UNION {UNION {{[kind |-> "IfThenElse", cond_ |-> <<c>>,
                       thenCase_ |-> <<t>>, elseCase_ |-> e] :
                        c \in ExprOfSize(i, B), t \in StmtOfSize(j, B),
                        e \in IF n - 1 - i - j = 0 THEN {nullptr}
                              ELSE {<<x>> : x \in StmtOfSize(n - 1 - i - j, B)}} :
                     j \in 1..(n - 1 - i)} :
              i \in 1..(n - 2)}

FunctionOfSize(n, B) ==
  IF n < 2 THEN {}
  ELSE {[kind |-> "Function", body_ |-> <<s>>] : s \in StmtOfSize(n - 1, B)}

RECURSIVE FunctionListOfSize(_, _)
FunctionListOfSize(m, B) ==
  IF m = 0 THEN {<<>>}
  ELSE UNION {{<< <<f>> >> \o rest :
                 f \in FunctionOfSize(i, B), rest \in FunctionListOfSize(m - i, B)} :
              i \in 1..m}

ProgramOfSize(n, B) ==
  {[kind |-> "Program", funcs_ |-> l] : l \in FunctionListOfSize(n - 1, B)}

NodeOfSize(n, B) ==
  ExprOfSize(n, B) \cup StmtOfSize(n, B) \cup FunctionOfSize(n, B)
  \cup ProgramOfSize(n, B)


(***************************************************************************)
(* A node of a tree is named by its path from the root; a path element is  *)
(* the child field and, for funcs_ and stmts_, the position in the list.   *)
(***************************************************************************)
ListFields == {"funcs_", "stmts_"}

Field(n, step) == IF step[1] \in ListFields THEN n[step[1]][step[2]] ELSE n[step[1]]

RECURSIVE PtrAt(_, _)
PtrAt(p, path) ==
  IF path = <<>> THEN p ELSE PtrAt(Field(p[1], Head(path)), Tail(path))

\* Children in declared order, as <<step, handle>> pairs.
Children(n) ==
  CASE n.kind = "Program" -> [i \in 1..Len(n.funcs_) |-> <<<<"funcs_", i>>, n.funcs_[i]>>]
    [] n.kind = "StmtSeq" -> [i \in 1..Len(n.stmts_) |-> <<<<"stmts_", i>>, n.stmts_[i]>>]
    [] n.kind = "Function" -> << <<<<"body_", 1>>, n.body_>> >>
    [] n.kind = "Invoke" -> << <<<<"expr_", 1>>, n.expr_>> >>
    [] n.kind = "Assign" -> << <<<<"var_", 1>>, n.var_>>, <<<<"expr_", 1>>, n.expr_>> >>
    [] n.kind = "While" -> << <<<<"cond_", 1>>, n.cond_>>, <<<<"body_", 1>>, n.body_>> >>
    [] n.kind = "IfThenElse" ->
         << <<<<"cond_", 1>>, n.cond_>>, <<<<"thenCase_", 1>>, n.thenCase_>>,
            <<<<"elseCase_", 1>>, n.elseCase_>> >>
    [] n.kind \in BinaryKinds -> << <<<<"lhs_", 1>>, n.lhs_>>, <<<<"rhs_", 1>>, n.rhs_>> >>
    [] OTHER -> <<>>

\* Paths of the child slots of the tree under handle p (absent ones included).
RECURSIVE Slots(_)
Slots(p) ==
  {<<>>} \cup
  (IF p = nullptr THEN {}
   ELSE LET c == Children(p[1]) IN
        UNION {{<<c[i][1]>> \o q : q \in Slots(c[i][2])} : i \in 1..Len(c)})

\* Paths of the nodes of the tree.
Nodes(p) == {q \in Slots(p) : PtrAt(p, q) # nullptr}

\* The tree p with the handle at path replaced by v.
RECURSIVE ReplaceAt(_, _, _)
ReplaceAt(p, path, v) ==
  IF path = <<>> THEN v
  ELSE LET n == p[1]
           s == Head(path)
           sub == ReplaceAt(Field(n, s), Tail(path), v)
       IN  IF s[1] \in ListFields
           THEN <<[n EXCEPT ![s[1]] = [@ EXCEPT ![s[2]] = sub]]>>
           ELSE <<[n EXCEPT ![s[1]] = sub]>>

(***************************************************************************)
(* The trees walked.  Well-formed trees satisfy the data-model invariants; *)
(* a malformed tree is a well-formed one with one handle replaced by       *)
(* nullptr or by a node whose tag is outside ASTNodeType.                  *)
(***************************************************************************)
Palettes ==
  {{"Integer", "Add", "Mul"}, {"Var", "Sub", "Div"}, {"Call", "LT", "LE"},
   {"Integer", "GT", "GE"}, {"Var", "EQ", "NE"}}

WellFormedTrees ==
  UNION {{<<n>> : n \in NodeOfSize(k, B)} : k \in 1..MaxNodes, B \in Palettes}

Faults == {nullptr, <<[kind |-> UnknownTag]>>}

MalformedTrees ==
  UNION {{ReplaceAt(t, q, v) : q \in Nodes(t), v \in Faults} : t \in WellFormedTrees}
  \ {nullptr}

Trees == WellFormedTrees \cup MalformedTrees

(***************************************************************************)
(* Visitors.  The base Visitor overrides nothing; a subclass overrides the *)
(* handler of kind K with a body that does not invoke the default ("cut"), *)
(* invokes it once ("wrap"), or raises its own error ("throw").            *)
(***************************************************************************)
DefaultVisitor == [K |-> "none", mode |-> "default"]

OverrideModes == {"cut", "wrap", "throw"}

Subclasses == {[K |-> k, mode |-> m] : k \in ASTNodeType, m \in OverrideModes}

\* The kinds of the nodes under handle p.
KindsIn(p) == {PtrAt(p, q)[1].kind : q \in Nodes(p)}

\* The visitors tried on a tree: a subclass overrides a kind that occurs in it.
Visitors(p) == {DefaultVisitor} \cup {s \in Subclasses : s.K \in KindsIn(p)}

(***************************************************************************)
(* Events and frames.                                                      *)
(***************************************************************************)
WalkEvent(path) == [t |-> "walk", path |-> path, h |-> "-", impl |-> "-"]

EnterEvent(path, h, impl) == [t |-> "enter", path |-> path, h |-> h, impl |-> impl]

ExitEvent(f) == [t |-> "exit", path |-> f.path, h |-> f.h, impl |-> f.impl]

Frame(path, h, impl) == [path |-> path, h |-> h, impl |-> impl, pc |-> 0]

Top == stack[Len(stack)]

\* The node a handler activation received as op.
Op(f) == PtrAt(tree, f.path)[1]

Running == caller \in {"first", "second"} /\ exc = "none"

Init ==
  /\ tree \in Trees
  /\ w = DefaultVisitor
  /\ caller = "first"
  /\ stack = <<>>
  /\ trace = [c \in {"first", "second"} |-> <<>>]
  /\ result = [c \in {"first", "second"} |-> "pending"]
  /\ exc = "none"

\* Mutant of Impl: visit() is not virtual, the base body always runs.
Impl_NonVirtual(v, kind) == "default"

\* Mutant of Impl: a subclass's overriding body is selected for every kind.
Impl_AnyKind(v, kind) == IF v.K # "none" THEN "override" ELSE "default"

(***************************************************************************)
(* Virtual dispatch of visit(): the overriding body runs for kind K of     *)
(* visitor v, the default body for every other kind.                       *)
(***************************************************************************)
Impl(v, kind) == IF v.K = kind THEN "override" ELSE "default"

\* Mutant of Dispatch: the switch has no default case, a tag outside the
\* closed set falls through and operator() returns.
Dispatch_NoDefault(v, op, path, base) ==
  IF op # nullptr /\ op[1].kind \in ASTNodeType
  THEN /\ stack' = Append(base, Frame(path, op[1].kind, Impl(v, op[1].kind)))
       /\ trace' = [trace EXCEPT ![caller] =
                      @ \o <<WalkEvent(path),
                             EnterEvent(path, op[1].kind, Impl(v, op[1].kind))>>]
       /\ UNCHANGED <<caller, result, exc>>
  ELSE /\ stack' = base
       /\ trace' = [trace EXCEPT ![caller] = Append(@, WalkEvent(path))]
       /\ UNCHANGED <<caller, result, exc>>

(***************************************************************************)
(* operator()(op), called with the activations `base` beneath it, by       *)
(* visitor v, on the handle op found at path.                              *)
(* op->nodeType() on a null handle is undefined behaviour: the process is  *)
(* killed, or a garbage tag is read, which either falls to the default     *)
(* case or selects a handler that touches no field of the node (the three  *)
(* such handlers have the same empty body; GarbageHandlers names the one   *)
(* that stands for them).                                                  *)
(***************************************************************************)
GarbageHandlers == {"Integer"}

Dispatch(v, op, path, base) ==
  IF op = nullptr
  THEN \/ /\ caller' = "dead"
          /\ result' = [result EXCEPT ![caller] = "Segfault"]
          /\ stack' = base
          /\ trace' = [trace EXCEPT ![caller] = Append(@, WalkEvent(path))]
          /\ UNCHANGED exc
       \/ /\ exc' = "Unrecognized ASTNodeType"
          /\ stack' = base
          /\ trace' = [trace EXCEPT ![caller] = Append(@, WalkEvent(path))]
          /\ UNCHANGED <<caller, result>>
       \/ \E g \in GarbageHandlers :
            /\ stack' = Append(base, Frame(path, g, Impl(v, g)))
            /\ trace' = [trace EXCEPT ![caller] =
                           @ \o <<WalkEvent(path), EnterEvent(path, g, Impl(v, g))>>]
            /\ UNCHANGED <<caller, result, exc>>
  ELSE IF op[1].kind \in ASTNodeType
  THEN /\ stack' = Append(base, Frame(path, op[1].kind, Impl(v, op[1].kind)))
       /\ trace' = [trace EXCEPT ![caller] =
                      @ \o <<WalkEvent(path),
                             EnterEvent(path, op[1].kind, Impl(v, op[1].kind))>>]
       /\ UNCHANGED <<caller, result, exc>>
  ELSE /\ exc' = "Unrecognized ASTNodeType"
       /\ stack' = base
       /\ trace' = [trace EXCEPT ![caller] = Append(@, WalkEvent(path))]
       /\ UNCHANGED <<caller, result>>

\* The caller applies a visitor to the root: the base Visitor first, then w.
Walk ==
  /\ Running
  /\ stack = <<>>
  /\ trace[caller] = <<>>
  /\ \E v \in (IF caller = "first" THEN {DefaultVisitor} ELSE Visitors(tree)) :
       /\ w' = v
       /\ Dispatch(v, tree, <<>>, <<>>)
  /\ UNCHANGED tree

InHandler(kind) ==
  /\ Running
  /\ stack # <<>>
  /\ Top.h = kind
  /\ Top.impl = "default"

\* (*this)(child) inside the handler on top of the stack.
CallChild(child, step) ==
  /\ Dispatch(w, child, Append(Top.path, step),
              [stack EXCEPT ![Len(stack)].pc = @ + 1])
  /\ UNCHANGED <<tree, w>>

\* The handler on top of the stack returns; the last return ends the walk.
Return ==
  /\ stack' = SubSeq(stack, 1, Len(stack) - 1)
  /\ trace' = [trace EXCEPT ![caller] = Append(@, ExitEvent(Top))]
  /\ IF Len(stack) = 1
     THEN /\ result' = [result EXCEPT ![caller] = "returned"]
          /\ caller' = IF caller = "first" THEN "second" ELSE "done"
     ELSE UNCHANGED <<result, caller>>
  /\ UNCHANGED <<tree, w, exc>>

VisitProgram ==
  /\ InHandler("Program")
  /\ IF Top.pc < Len(Op(Top).funcs_)
     THEN CallChild(Op(Top).funcs_[Top.pc + 1], <<"funcs_", Top.pc + 1>>)
     ELSE Return

VisitFunction ==
  /\ InHandler("Function")
  /\ \/ Top.pc = 0 /\ CallChild(Op(Top).body_, <<"body_", 1>>)
     \/ Top.pc = 1 /\ Return

VisitStmtSeq ==
  /\ InHandler("StmtSeq")
  /\ IF Top.pc < Len(Op(Top).stmts_)
     THEN CallChild(Op(Top).stmts_[Top.pc + 1], <<"stmts_", Top.pc + 1>>)
     ELSE Return

VisitInteger == InHandler("Integer") /\ Return

VisitVar == InHandler("Var") /\ Return

VisitAssign ==
  /\ InHandler("Assign")
  /\ \/ Top.pc = 0 /\ CallChild(Op(Top).var_, <<"var_", 1>>)
     \/ Top.pc = 1 /\ CallChild(Op(Top).expr_, <<"expr_", 1>>)
     \/ Top.pc = 2 /\ Return

\* Mutant of VisitIfThenElse: elseCase_ is walked without the nullptr test.
VisitIfThenElse_NoCheck ==
  /\ InHandler("IfThenElse")
  /\ \/ Top.pc = 0 /\ CallChild(Op(Top).cond_, <<"cond_", 1>>)
     \/ Top.pc = 1 /\ CallChild(Op(Top).thenCase_, <<"thenCase_", 1>>)
     \/ Top.pc = 2 /\ CallChild(Op(Top).elseCase_, <<"elseCase_", 1>>)
     \/ Top.pc = 3 /\ Return

\* Mutant of VisitIfThenElse: op is not const and the handler releases
\* elseCase_ once it has walked it.
VisitIfThenElse_ResetElse ==
  /\ InHandler("IfThenElse")
  /\ \/ Top.pc = 0 /\ CallChild(Op(Top).cond_, <<"cond_", 1>>)
     \/ Top.pc = 1 /\ CallChild(Op(Top).thenCase_, <<"thenCase_", 1>>)
     \/ /\ Top.pc = 2
        /\ IF Op(Top).elseCase_ # nullptr
           THEN CallChild(Op(Top).elseCase_, <<"elseCase_", 1>>)
           ELSE Return
     \/ /\ Top.pc = 3
        /\ tree' = ReplaceAt(tree, Append(Top.path, <<"elseCase_", 1>>), nullptr)
        /\ stack' = SubSeq(stack, 1, Len(stack) - 1)
        /\ trace' = [trace EXCEPT ![caller] = Append(@, ExitEvent(Top))]
        /\ IF Len(stack) = 1
           THEN /\ result' = [result EXCEPT ![caller] = "returned"]
                /\ caller' = IF caller = "first" THEN "second" ELSE "done"
           ELSE UNCHANGED <<result, caller>>
        /\ UNCHANGED <<w, exc>>

VisitIfThenElse ==
  /\ InHandler("IfThenElse")
  /\ \/ Top.pc = 0 /\ CallChild(Op(Top).cond_, <<"cond_", 1>>)
     \/ Top.pc = 1 /\ CallChild(Op(Top).thenCase_, <<"thenCase_", 1>>)
     \/ /\ Top.pc = 2
        /\ IF Op(Top).elseCase_ # nullptr
           THEN CallChild(Op(Top).elseCase_, <<"elseCase_", 1>>)
           ELSE Return
     \/ Top.pc = 3 /\ Return

\* Mutant of VisitWhile: body_ is not walked.
VisitWhile_SkipBody ==
  /\ InHandler("While")
  /\ \/ Top.pc = 0 /\ CallChild(Op(Top).cond_, <<"cond_", 1>>)
     \/ Top.pc = 1 /\ Return

\* Mutant of VisitWhile: the handler loops forever after walking body_.
VisitWhile_Spin ==
  /\ InHandler("While")
  /\ \/ Top.pc = 0 /\ CallChild(Op(Top).cond_, <<"cond_", 1>>)
     \/ Top.pc = 1 /\ CallChild(Op(Top).body_, <<"body_", 1>>)
     \/ Top.pc = 2 /\ UNCHANGED vars

VisitWhile ==
  /\ InHandler("While")
  /\ \/ Top.pc = 0 /\ CallChild(Op(Top).cond_, <<"cond_", 1>>)
     \/ Top.pc = 1 /\ CallChild(Op(Top).body_, <<"body_", 1>>)
     \/ Top.pc = 2 /\ Return

VisitInvoke ==
  /\ InHandler("Invoke")
  /\ \/ Top.pc = 0 /\ CallChild(Op(Top).expr_, <<"expr_", 1>>)
     \/ Top.pc = 1 /\ Return

VisitCall == InHandler("Call") /\ Return

\* Mutant of VisitBinary: rhs_ is walked before lhs_.
VisitBinary_RhsFirst(name) ==
  /\ InHandler(name)
  /\ \/ Top.pc = 0 /\ CallChild(Op(Top).rhs_, <<"rhs_", 1>>)
     \/ Top.pc = 1 /\ CallChild(Op(Top).lhs_, <<"lhs_", 1>>)
     \/ Top.pc = 2 /\ Return

VisitBinary(name) ==
  /\ InHandler(name)
  /\ \/ Top.pc = 0 /\ CallChild(Op(Top).lhs_, <<"lhs_", 1>>)
     \/ Top.pc = 1 /\ CallChild(Op(Top).rhs_, <<"rhs_", 1>>)
     \/ Top.pc = 2 /\ Return

(***************************************************************************)
(* The overriding handler of a subclass.                                   *)
(***************************************************************************)
VisitOverride ==
  /\ Running
  /\ stack # <<>>
  /\ Top.impl = "override"
  /\ \/ /\ w.mode = "cut"
        /\ Return
     \/ /\ w.mode = "wrap"
        /\ Top.pc = 0
        /\ stack' = Append([stack EXCEPT ![Len(stack)].pc = 1],
                           Frame(Top.path, Top.h, "default"))
        /\ trace' = [trace EXCEPT ![caller] =
                       Append(@, EnterEvent(Top.path, Top.h, "default"))]
        /\ UNCHANGED <<tree, w, caller, result, exc>>
     \/ /\ w.mode = "wrap"
        /\ Top.pc = 1
        /\ Return
     \/ /\ w.mode = "throw"
        /\ exc' = "SubclassError"
        /\ UNCHANGED <<tree, w, caller, stack, trace, result>>

(***************************************************************************)
(* Exception propagation: nothing in Visitor catches, so an exception in   *)
(* flight leaves each activation in turn and then reaches the caller.      *)
(***************************************************************************)
Unwind ==
  /\ exc # "none"
  /\ stack # <<>>
  /\ stack' = SubSeq(stack, 1, Len(stack) - 1)
  /\ UNCHANGED <<tree, w, caller, trace, result, exc>>

Surface ==
  /\ exc # "none"
  /\ stack = <<>>
  /\ caller \in {"first", "second"}
  /\ result' = [result EXCEPT ![caller] = exc]
  /\ caller' = "aborted"
  /\ UNCHANGED <<tree, w, stack, trace, exc>>

Next ==
  \/ Walk
  \/ VisitProgram
  \/ VisitFunction
  \/ VisitStmtSeq
  \/ VisitInteger
  \/ VisitVar
  \/ VisitAssign
  \/ VisitIfThenElse
  \/ VisitWhile
  \/ VisitInvoke
  \/ VisitCall
  \/ \E name \in BinaryKinds : VisitBinary(name)
  \/ VisitOverride
  \/ Unwind
  \/ Surface

Spec == Init /\ [][Next]_vars

(***************************************************************************)
(* Vocabulary of the properties.                                           *)
(***************************************************************************)
WalkIds == {"first", "second"}

\* Walk c is made by the base Visitor.
DefaultWalk(c) == c = "first" \/ w = DefaultVisitor

KindAt(q) == PtrAt(tree, q)[1].kind

IsNode(q) == q \in Nodes(tree)

\* Every tag is of the closed set and only elseCase_ handles are absent.
IsWellFormed(p) ==
  \A q \in Slots(p) :
    IF PtrAt(p, q) = nullptr
    THEN q # <<>> /\ q[Len(q)][1] = "elseCase_"
    ELSE PtrAt(p, q)[1].kind \in ASTNodeType

IsPrefix(a, b) == Len(a) <= Len(b) /\ SubSeq(b, 1, Len(a)) = a

IsProperPrefix(a, b) == Len(a) < Len(b) /\ SubSeq(b, 1, Len(a)) = a

\* Positions in the trace of walk c of the events of type t on path q.
At(c, t, q) == {i \in DOMAIN trace[c] : trace[c][i].t = t /\ trace[c][i].path = q}

Returned(c) == result[c] = "returned"

\* C1 -- Visitation completeness: in a default walk of a well-formed tree no
\* node's handler is ever invoked twice, no handler is invoked on anything but
\* a node, every invocation is of the handler of the node's own kind, and once
\* the walk has returned every node has had exactly one invocation.
C1_VisitationCompleteness ==
  \A c \in WalkIds :
    (DefaultWalk(c) /\ IsWellFormed(tree)) =>
      /\ \A i \in DOMAIN trace[c] :
           trace[c][i].t = "enter" =>
             /\ IsNode(trace[c][i].path)
             /\ trace[c][i].h = KindAt(trace[c][i].path)
             /\ trace[c][i].impl = "default"
      /\ \A q \in Nodes(tree) :
           /\ Cardinality(At(c, "enter", q)) <= 1
           /\ Returned(c) => Cardinality(At(c, "enter", q)) = 1

C1_Witness ==
  /\ IsWellFormed(tree)
  /\ Returned("first")
  /\ Cardinality(Nodes(tree)) = MaxNodes
  /\ \E q \in Nodes(tree) : Len(q) >= 2

\* C2 -- Ordering: in a default walk, when the handler of a child of a compound
\* node begins, the node's own handler has begun before it, every earlier
\* sibling's handler has begun before it, and every handler invocation in an
\* earlier sibling's subtree has completed.
C2_Ordering ==
  \A c \in WalkIds :
    DefaultWalk(c) =>
      \A q \in Nodes(tree) :
        LET ch == Children(PtrAt(tree, q)[1]) IN
        \A i \in {x \in DOMAIN ch : ch[x][2] # nullptr} :
          \A e \in At(c, "enter", Append(q, ch[i][1])) :
            /\ \E b \in At(c, "enter", q) : b < e
            /\ \A j \in 1..(i - 1) :
                 ch[j][2] # nullptr =>
                   /\ \E b \in At(c, "enter", Append(q, ch[j][1])) : b < e
                   /\ \A k \in DOMAIN trace[c] :
                        (/\ trace[c][k].t = "enter"
                         /\ IsPrefix(Append(q, ch[j][1]), trace[c][k].path)) =>
                          /\ k < e
                          /\ \E x \in At(c, "exit", trace[c][k].path) : k < x /\ x < e

C2_Witness ==
  /\ Returned("first")
  /\ \E q \in Nodes(tree) :
       /\ KindAt(q) \in ({"Assign", "IfThenElse", "While", "Program", "StmtSeq"}
                         \cup BinaryKinds)
       /\ LET ch == Children(PtrAt(tree, q)[1]) IN
          /\ Len(ch) >= 2
          /\ ch[1][2] # nullptr
          /\ ch[2][2] # nullptr
          /\ Children(ch[1][2][1]) # <<>>
          /\ At("first", "enter", Append(q, ch[2][1])) # {}

\* C3 -- Unknown-kind detection: whenever operator() is applied to a node whose
\* tag is outside ASTNodeType, the walk fails with the "Unrecognized
\* ASTNodeType" error, which is what reaches the caller; that call is the last
\* event of the walk, so no handler is invoked on the node and nothing below
\* it is walked.
C3_UnknownKind ==
  \A c \in WalkIds :
    \A i \in DOMAIN trace[c] :
      (/\ trace[c][i].t = "walk"
       /\ PtrAt(tree, trace[c][i].path) # nullptr
       /\ KindAt(trace[c][i].path) \notin ASTNodeType) =>
        /\ i = Len(trace[c])
        /\ exc = "Unrecognized ASTNodeType"
        /\ caller \in {c, "aborted"}
        /\ result[c] = IF caller = "aborted" THEN "Unrecognized ASTNodeType"
                       ELSE "pending"
        /\ \A k \in DOMAIN trace[c] :
             trace[c][k].t = "enter" => ~IsPrefix(trace[c][i].path, trace[c][k].path)

C3_Witness ==
  /\ caller = "aborted"
  /\ result["first"] = "Unrecognized ASTNodeType"
  /\ Len(trace["first"]) > 3
  /\ \E q \in Nodes(tree) :
       /\ KindAt(q) = UnknownTag
       /\ At("first", "walk", q) # {}

\* C4 -- Null-child detection: whenever operator() is applied to an absent
\* required child, the walk fails there with the NullChild error: the call is
\* the last event of the walk and NullChild is the error in flight.
C4_NullChildDetected ==
  \A c \in WalkIds :
    \A i \in DOMAIN trace[c] :
      (trace[c][i].t = "walk" /\ PtrAt(tree, trace[c][i].path) = nullptr) =>
        /\ i = Len(trace[c])
        /\ exc = "NullChild"
        /\ caller \in {c, "aborted"}

\* Sub-sequence of the trace of walk c made of the events on the paths in S.
EventsOn(c, S) == SelectSeq(trace[c], LAMBDA e : e.path \in S)

\* Nodes below a node of kind k.
Below(k) ==
  {q \in Nodes(tree) :
     \E a \in Nodes(tree) : IsProperPrefix(a, q) /\ KindAt(a) = k}

\* C5 -- Cut-off: after a walk of a well-formed tree by a subclass whose
\* override of kind K does not invoke the default handler, a node has had no
\* handler invoked if and only if it is a proper descendant of a node of kind
\* K; every K node that is not such a descendant has had the overriding
\* handler invoked exactly once; and the events on the nodes that are neither
\* of kind K nor below a K node are those of the default walk, in that order.
C5_CutOff ==
  (/\ w \in Subclasses
   /\ w.mode = "cut"
   /\ IsWellFormed(tree)
   /\ caller = "done") =>
    /\ Returned("second")
    /\ \A q \in Nodes(tree) : (At("second", "enter", q) = {}) <=> (q \in Below(w.K))
    /\ \A q \in Nodes(tree) \ Below(w.K) :
         /\ Cardinality(At("second", "enter", q)) = 1
         /\ \A i \in At("second", "enter", q) :
              /\ trace["second"][i].h = KindAt(q)
              /\ trace["second"][i].impl =
                   IF KindAt(q) = w.K THEN "override" ELSE "default"
    /\ LET S == {q \in Nodes(tree) \ Below(w.K) : KindAt(q) # w.K}
       IN  EventsOn("second", S) = EventsOn("first", S)

C5_Witness ==
  /\ w \in Subclasses
  /\ w.mode = "cut"
  /\ IsWellFormed(tree)
  /\ caller = "done"
  /\ Below(w.K) # {}
  /\ \E q \in Nodes(tree) \ Below(w.K) : KindAt(q) # w.K

\* C6 as claimed -- Override transparency: after a walk of a well-formed tree
\* by a subclass overriding only kind K, the events on the nodes of every
\* other kind are those of the default walk, in that order.
C6_Original ==
  (/\ w \in Subclasses
   /\ IsWellFormed(tree)
   /\ caller \in {"done", "aborted"}) =>
    LET S == {q \in Nodes(tree) : KindAt(q) # w.K}
    IN  EventsOn("second", S) = EventsOn("first", S)

\* C6 amended -- Override transparency: after a walk of a well-formed tree by
\* a subclass overriding only kind K with a body that raises no error, the
\* events on the nodes of every other kind are those of the default walk, in
\* that order, provided the override invokes the default handler once; when
\* it does not, this holds of the nodes of other kinds that are not below a
\* node of kind K.
C6_OverrideTransparency ==
  (/\ w \in Subclasses
   /\ w.mode \in {"cut", "wrap"}
   /\ IsWellFormed(tree)
   /\ caller = "done") =>
    LET S == {q \in Nodes(tree) :
                KindAt(q) # w.K /\ (w.mode = "cut" => q \notin Below(w.K))}
    IN  /\ Returned("second")
        /\ EventsOn("second", S) = EventsOn("first", S)

C6_Witness ==
  /\ w \in Subclasses
  /\ w.mode = "wrap"
  /\ IsWellFormed(tree)
  /\ caller = "done"
  /\ Below(w.K) # {}
  /\ \E q \in Nodes(tree) \ Below(w.K) : KindAt(q) # w.K

\* The IfThenElse nodes of the tree whose elseCase_ is absent / present.
IfNodes(absent) ==
  {q \in Nodes(tree) :
     /\ KindAt(q) = "IfThenElse"
     /\ (PtrAt(tree, q)[1].elseCase_ = nullptr) = absent}

\* C7 -- Optional-child policy: a default walk of a well-formed tree that
\* contains an IfThenElse without elseCase_ raises no error and ends by
\* returning; operator() is never called for the absent branch, thenCase_ is
\* walked after cond_, and a present elseCase_ is walked after thenCase_ has
\* completed.
C7_OptionalChild ==
  \A c \in WalkIds :
    (DefaultWalk(c) /\ IsWellFormed(tree)) =>
      /\ IfNodes(TRUE) # {} =>
           /\ caller = c => exc = "none"
           /\ result[c] \in {"pending", "returned"}
           /\ (result[c] = "pending") => (caller = c \/ caller = "first")
      /\ \A q \in IfNodes(TRUE) :
           /\ At(c, "walk", Append(q, <<"elseCase_", 1>>)) = {}
           /\ \A t \in At(c, "walk", Append(q, <<"thenCase_", 1>>)) :
                \E x \in At(c, "exit", Append(q, <<"cond_", 1>>)) : x < t
           /\ At(c, "exit", q) # {} =>
                At(c, "exit", Append(q, <<"thenCase_", 1>>)) # {}
      /\ \A q \in IfNodes(FALSE) :
           /\ \A e \in At(c, "walk", Append(q, <<"elseCase_", 1>>)) :
                \E x \in At(c, "exit", Append(q, <<"thenCase_", 1>>)) : x < e
           /\ At(c, "exit", q) # {} =>
                At(c, "exit", Append(q, <<"elseCase_", 1>>)) # {}

C7_Witness ==
  /\ IsWellFormed(tree)
  /\ Returned("first")
  /\ \E q \in IfNodes(TRUE) :
       /\ q # <<>>
       /\ At("first", "exit", Append(q, <<"thenCase_", 1>>)) # {}
       /\ At("first", "exit", q) # {}

\* Paths of the nodes under handle p, found at path, in pre-order.
RECURSIVE PreOrderFrom(_, _, _)
RECURSIVE PreOrder(_, _)
PreOrderFrom(c, path, i) ==
  IF i > Len(c) THEN <<>>
  ELSE PreOrder(c[i][2], Append(path, c[i][1])) \o PreOrderFrom(c, path, i + 1)

PreOrder(p, path) ==
  IF p = nullptr THEN <<>>
  ELSE <<path>> \o PreOrderFrom(Children(p[1]), path, 1)

\* Paths of the handler invocations of walk c, in order.
Entered(c) ==
  LET es == SelectSeq(trace[c], LAMBDA e : e.t = "enter")
  IN  [i \in DOMAIN es |-> es[i].path]

\* The walk of c has failed: operator() met an absent child or an unknown
\* tag, or a subclass handler raised its error.
Failed(c) ==
  \/ c = caller /\ exc # "none"
  \/ result[c] \notin {"pending", "returned"}
  \/ \E i \in DOMAIN trace[c] :
       /\ trace[c][i].t = "walk"
       /\ \/ PtrAt(tree, trace[c][i].path) = nullptr
          \/ KindAt(trace[c][i].path) \notin ASTNodeType

\* C8 -- Abort on failure: once a walk has failed, an error is in flight or has
\* reached the caller unchanged, the failing call is the last event of the walk
\* (no handler is invoked after it), and in a default walk the handlers invoked
\* before it are a prefix of the pre-order sequence of the tree.
C8_AbortOnFailure ==
  \A c \in WalkIds :
    Failed(c) =>
      /\ exc \in {"Unrecognized ASTNodeType", "SubclassError", "NullChild"}
      /\ caller \in {c, "aborted"}
      /\ result[c] = IF caller = "aborted" THEN exc ELSE "pending"
      /\ \A i \in DOMAIN trace[c] :
           (/\ trace[c][i].t = "walk"
            /\ \/ PtrAt(tree, trace[c][i].path) = nullptr
               \/ KindAt(trace[c][i].path) \notin ASTNodeType) =>
             i = Len(trace[c])
      /\ exc = "SubclassError" =>
           /\ trace[c][Len(trace[c])].t = "enter"
           /\ trace[c][Len(trace[c])].impl = "override"
      /\ DefaultWalk(c) =>
           /\ Len(Entered(c)) <= Len(PreOrder(tree, <<>>))
           /\ Entered(c) = SubSeq(PreOrder(tree, <<>>), 1, Len(Entered(c)))

\* C9 -- Idempotent traversal: no step of a walk changes the tree, and two
\* successive default walks of a well-formed tree produce identical sequences
\* of events.
C9_Idempotent ==
  /\ [][tree' = tree]_vars
  /\ []((/\ w = DefaultVisitor
         /\ IsWellFormed(tree)
         /\ caller = "done") => trace["second"] = trace["first"])

C9_Witness ==
  /\ w = DefaultVisitor
  /\ IsWellFormed(tree)
  /\ caller = "done"
  /\ Len(trace["second"]) >= 3 * MaxNodes

\* The scheduling of the walk: it runs on the caller's thread and nothing
\* suspends it, so a step that can be taken is taken.  Termination is
\* checked on the well-formed trees of fewer than MaxNodes nodes.
InitFair == Init /\ tree \in WellFormedTrees /\ Cardinality(Nodes(tree)) < MaxNodes

FairSpec == InitFair /\ [][Next]_vars /\ WF_vars(Next)

Height(p) == IF Nodes(p) = {} THEN 0
             ELSE CHOOSE n \in 1..(MaxNodes + 1) :
                    /\ \E q \in Nodes(p) : Len(q) + 1 = n
                    /\ \A q \in Nodes(p) : Len(q) + 1 <= n

\* The in-progress handler activations are a root-to-node path of the tree.
StackIsRootPath ==
  /\ Len(stack) <= Height(tree)
  /\ \A i \in DOMAIN stack :
       /\ IsNode(stack[i].path)
       /\ Len(stack[i].path) = i - 1
       /\ stack[i].h = KindAt(stack[i].path)
       /\ i > 1 => IsPrefix(stack[i - 1].path, stack[i].path)

\* C10 -- Termination: a default walk of a well-formed tree eventually returns
\* to its caller with no handler activation left, and at every moment of it
\* the in-progress activations are a root-to-node path of the tree, so there
\* are never more of them than the height of the tree.
C10_Termination ==
  /\ []((IsWellFormed(tree) /\ DefaultWalk(caller)) => StackIsRootPath)
  /\ \A c \in WalkIds :
       (IsWellFormed(tree) /\ caller = c /\ DefaultWalk(c) /\ trace[c] # <<>>)
         ~> (Returned(c) /\ caller # c /\ stack = <<>>)

C10_Witness ==
  /\ IsWellFormed(tree)
  /\ caller = "first"
  /\ Len(stack) = Height(tree)
  /\ Len(stack) >= 3

====
